---- MODULE Spec2Model ----
(***************************************************************************)
(* Split-block bloom filters of parquet-go (package bloom): the in-memory  *)
(* SplitBlockFilter, its byte view, the sizing function NumSplitBlocksOf   *)
(* and the disk-backed probe CheckSplitBlock with its pool of scratch      *)
(* blocks.                                                                 *)
(*                                                                         *)
(* Machine integers are little-endian sequences of bytes, so that 32-bit   *)
(* and 64-bit arithmetic keeps its width: a uint32 is 4 bytes, a uint64 or *)
(* an int64 is 8 bytes.  A Block is its 32 bytes (8 little-endian 32-bit   *)
(* words), which is also its image in a serialized filter.                 *)
(***************************************************************************)
EXTENDS Integers, Sequences, FiniteSets, TLC

\* ------------------------------------------------------------------------
\* Bounds of the model.

\* Largest number of blocks of a filter that the model allocates.
MaxBlocks == 2
\* Largest number of hashes inserted between two Resets.
MaxLog == 3
\* Largest number of hashes of one InsertBulk.
MaxBulk == 2
\* Number of concurrent callers of CheckSplitBlock.
NumProcs == 2
\* Largest number of calls of CheckSplitBlock in a run.
MaxCalls == 2

\* ------------------------------------------------------------------------
\* Program constants.

\* bloom.BlockSize: bytes of a Block (8 words of 4 bytes).
BlockSize == 32
\* Bytes of a uint32 (Block words, hash fragments).
U32 == 4
\* Bytes of a uint64, uint, int and int64 on the 64-bit targets.
U64 == 8

\* ------------------------------------------------------------------------
\* Fixed-width arithmetic on little-endian byte sequences.

Byte == 0..255

Zeros(w) == [k \in 1..w |-> 0]

RECURSIVE FromNat(_, _)
\* The w-byte image of the natural number n (n mod 256^w).
FromNat(n, w) == IF w = 0 THEN <<>> ELSE <<n % 256>> \o FromNat(n \div 256, w - 1)

RECURSIVE ToNat(_)
\* The value of a byte sequence that fits TLC's integers.
ToNat(a) == IF a = <<>> THEN 0 ELSE a[1] + 256 * ToNat(Tail(a))

\* Zero-extension (or truncation) of a to w bytes.
Extend(a, w) == [k \in 1..w |-> IF k <= Len(a) THEN a[k] ELSE 0]

RECURSIVE ColSum(_, _, _, _)
\* Sum of a[i] * b[k+1-i] for i in 1..i0: column k of the schoolbook product.
ColSum(a, b, k, i) ==
    IF i = 0 THEN 0
    ELSE (IF k + 1 - i \in 1..Len(b) THEN a[i] * b[k + 1 - i] ELSE 0)
         + ColSum(a, b, k, i - 1)

RECURSIVE MulFrom(_, _, _, _, _)
MulFrom(a, b, k, carry, w) ==
    IF k > w THEN <<>>
    ELSE LET t == ColSum(a, b, k, IF k < Len(a) THEN k ELSE Len(a)) + carry
         IN  <<t % 256>> \o MulFrom(a, b, k + 1, t \div 256, w)

\* a * b modulo 256^w: the product of two machine words of w bytes.
MulBytes(a, b, w) == MulFrom(a, b, 1, 0, w)

RECURSIVE AddFrom(_, _, _)
AddFrom(a, c, k) ==
    IF k > Len(a) THEN <<>>
    ELSE LET t == a[k] + c IN <<t % 256>> \o AddFrom(a, t \div 256, k + 1)

\* a + c modulo 256^Len(a), for a small natural number c.
AddSmall(a, c) == AddFrom(a, c, 1)

RECURSIVE DivFrom(_, _, _, _)
DivFrom(a, d, k, r) ==
    IF k = 0 THEN <<>>
    ELSE LET cur == r * 256 + a[k]
         IN  DivFrom(a, d, k - 1, cur % d) \o <<cur \div d>>

\* floor(a / d) for a small divisor d, same width as a.
DivSmall(a, d) == DivFrom(a, d, Len(a), 0)

RECURSIVE RemFrom(_, _, _, _)
RemFrom(a, d, k, r) ==
    IF k = 0 THEN r ELSE RemFrom(a, d, k - 1, (r * 256 + a[k]) % d)

\* a mod d for a small divisor d.
RemSmall(a, d) == RemFrom(a, d, Len(a), 0)

\* ceil(a / d) without any wraparound: the result is one byte wider than needed.
CeilDiv(a, d) ==
    LET q == DivSmall(a, d)
    IN  IF RemSmall(a, d) = 0 THEN q ELSE AddSmall(q, 1)

\* a <= b for two machine words of one width, compared from the high byte.
RECURSIVE LeqFrom(_, _, _)
LeqFrom(a, b, i) ==
    IF i = 0 THEN TRUE
    ELSE IF a[i] # b[i] THEN a[i] < b[i]
    ELSE LeqFrom(a, b, i - 1)

Leq(a, b) == LeqFrom(a, b, Len(a))

HasBit(b, k) == (b \div (2 ^ k)) % 2 = 1

SetBit(b, k) == IF HasBit(b, k) THEN b ELSE b + 2 ^ k

\* ------------------------------------------------------------------------
\* Inputs: 64-bit hashes, as 8 little-endian bytes.

\* 0x0000000000000001: block 0 of every filter.
H0 == <<1, 0, 0, 0, 0, 0, 0, 0>>
\* 0x4000000000000001: the fragment of H0; block 0 of filters of 1..3 blocks.
H1 == <<1, 0, 0, 0, 0, 0, 0, 64>>
\* 0x80000000deadbeef: block 1 of a filter of 2 or 3 blocks.
H2 == <<239, 190, 173, 222, 0, 0, 0, 128>>
\* 0xffffffff12345678: the last block of every filter.
H3 == <<120, 86, 52, 18, 255, 255, 255, 255>>

\* The hashes that the filter operations are called with.
Hashes == {H0, H1, H3}

\* All the hashes of the model, those of the probes included.
AllHashes == {H0, H1, H2, H3}

\* ------------------------------------------------------------------------
\* Block: 8 words of 32 bits, stored as 32 little-endian bytes.

\* The eight salts of the split-block bloom filter, as little-endian uint32:
\* 0x47b6137b 0x44974d91 0x8824ad5b 0xa2b7289d 0x705495c7 0x2df1424b
\* 0x9efc4947 0x5c6bfb31.
Salt ==
    << <<123, 19, 182, 71>>, <<145, 77, 151, 68>>, <<91, 173, 36, 136>>,
       <<157, 40, 183, 162>>, <<199, 149, 84, 112>>, <<75, 66, 241, 45>>,
       <<71, 73, 252, 158>>, <<49, 251, 107, 92>> >>

\* Bit position of the fragment x (a uint32) in word i (0..7):
\* (x * salt[i]) >> 27 in 32-bit arithmetic, a value in 0..31.
BitOf(x, i) == MulBytes(x, Salt[i + 1], U32)[U32] \div 8

\* uint32(x): the fragment of the hash x used inside a block.
Fragment(x) == SubSeq(x, 1, U32)

\* The bit positions of the fragments of AllHashes, computed once.
BitTab == [x \in {Fragment(h) : h \in AllHashes} |-> [i \in 0..7 |-> BitOf(x, i)]]

Bit(x, i) == IF x \in DOMAIN BitTab THEN BitTab[x][i] ELSE BitOf(x, i)

ZeroBlock == Zeros(BlockSize)

\* Block.Insert(x): set bit BitOf(x, i) of word i, for each of the 8 words.
BlockInsert(b, x) ==
    [k \in 1..BlockSize |->
        LET i == (k - 1) \div U32
            bit == Bit(x, i)
        IN  IF (k - 1) % U32 = bit \div 8 THEN SetBit(b[k], bit % 8) ELSE b[k]]

\* Block.Check(x): every word has its bit set.
BlockCheck(b, x) ==
    \A i \in 0..7 :
        LET bit == Bit(x, i)
        IN  HasBit(b[U32 * i + (bit \div 8) + 1], bit % 8)

\* ------------------------------------------------------------------------
\* Hash reduction.

\* uint64(scale) of an int32 scale: sign extension to 64 bits.
SignExtend(a) ==
    a \o (IF a[Len(a)] >= 128 THEN <<255, 255, 255, 255>> ELSE <<0, 0, 0, 0>>)

\* fasthash1x64(value, scale): the high 32 bits of (value >> 32) * scale,
\* computed in 64 bits.  value is a uint64, scale an int32; the result is
\* the 4-byte image of the block index.
fasthash1x64(value, scale) ==
    LET hi == Extend(SubSeq(value, U32 + 1, U64), U64)
    IN  SubSeq(MulBytes(hi, SignExtend(scale), U64), U32 + 1, U64)

\* Block indexes of AllHashes in filters of up to MaxBlocks + 1 blocks, computed once.
IndexTab ==
    [x \in AllHashes |->
        [n \in 0..(MaxBlocks + 1) |-> ToNat(fasthash1x64(x, FromNat(n, U32)))]]

\* ------------------------------------------------------------------------
\* Slices.  A slice header is a pointer (a byte offset into the one buffer
\* mem of the model) and a length, in elements: bytes for a []byte, Blocks
\* for a SplitBlockFilter.

Slice(p, n) == [ptr |-> p, len |-> n]

\* The nil slice of a view that was never made.
Nil == [ptr |-> 0, len |-> -1]

\* MakeSplitBlockFilter(data): the same pointer, len(data) / BlockSize blocks.
MakeSplitBlockFilter(data) == Slice(data.ptr, data.len \div BlockSize)

\* Bytes with the length left in blocks.
BytesUnscaled(fl) == Slice(fl.ptr, fl.len)

\* f.Bytes(): the same pointer, len(f) * BlockSize bytes.
Bytes(fl) == Slice(fl.ptr, fl.len * BlockSize)

\* The bytes a []byte slice denotes in the buffer m.
Deref(m, data) == SubSeq(m, data.ptr + 1, data.ptr + data.len)

\* Block i (from 0) of the filter fl in the buffer m.
BlockAt(m, fl, i) ==
    SubSeq(m, fl.ptr + BlockSize * i + 1, fl.ptr + BlockSize * (i + 1))

\* The buffer m with block i (from 0) of the filter fl replaced by b.
WithBlock(m, fl, i, b) ==
    [k \in 1..Len(m) |->
        LET o == k - 1 - fl.ptr - BlockSize * i
        IN  IF o \in 0..(BlockSize - 1) THEN b[o + 1] ELSE m[k]]

\* The block index of x among n blocks.
BlockIndex(x, n) ==
    IF x \in AllHashes /\ n \in 0..(MaxBlocks + 1)
    THEN IndexTab[x][n]
    ELSE ToNat(fasthash1x64(x, FromNat(n, U32)))

\* f.Block(x): the index of the block that x hashes to.
Block(fl, x) == BlockIndex(x, fl.len)

\* filterInsert(f, x): insert the fragment of x into the block x hashes to.
filterInsert(m, fl, x) ==
    LET i == Block(fl, x)
    IN  WithBlock(m, fl, i, BlockInsert(BlockAt(m, fl, i), Fragment(x)))

\* filterCheck(f, x): check the fragment of x in the block x hashes to.
filterCheck(m, fl, x) == BlockCheck(BlockAt(m, fl, Block(fl, x)), Fragment(x))

RECURSIVE filterInsertBulk(_, _, _)
\* filterInsertBulk(f, x): filterInsert of every value of x, in order.
filterInsertBulk(m, fl, xs) ==
    IF xs = <<>> THEN m
    ELSE filterInsertBulk(filterInsert(m, fl, Head(xs)), fl, Tail(xs))

\* Reset with a loop that stops one block early.
ResetSkipLast(m, fl) ==
    [k \in 1..Len(m) |->
        IF k - 1 - fl.ptr \in 0..(fl.len - 1) * BlockSize - 1 THEN 0 ELSE m[k]]

\* The loop of Reset: every block of the filter becomes Block{}.
ResetBlocks(m, fl) ==
    [k \in 1..Len(m) |->
        IF k - 1 - fl.ptr \in 0..(fl.len * BlockSize - 1) THEN 0 ELSE m[k]]

\* ------------------------------------------------------------------------
\* Inputs of the filter operations.

\* Lengths of the byte buffers that filters are made of: whole numbers of
\* blocks (make(SplitBlockFilter, n)) and one byte more (a raw buffer).
BufLens == {BlockSize * n : n \in 0..MaxBlocks} \cup {BlockSize + 1}

\* A fresh buffer of L bytes: zeroed blocks, then the bytes beyond the last
\* whole block, which belong to no block.
FreshBuffer(L) ==
    [k \in 1..L |-> IF k > BlockSize * (L \div BlockSize) THEN 255 ELSE 0]

RECURSIVE SeqsUpTo(_, _)
\* The sequences over S of length at most n.
SeqsUpTo(S, n) ==
    IF n = 0 THEN {<<>>}
    ELSE LET T == SeqsUpTo(S, n - 1)
         IN  T \cup {Append(t, x) : t \in {u \in T : Len(u) = n - 1}, x \in S}

Range(s) == {s[k] : k \in 1..Len(s)}

\* The arguments of InsertBulk.
BulkArgs == SeqsUpTo(Hashes, MaxBulk)

\* ------------------------------------------------------------------------
\* State.

VARIABLES
    mem,        \* the byte buffer that backs the filter (and, serialized, the source of probes)
    f,          \* the SplitBlockFilter made over mem
    g,          \* MakeSplitBlockFilter(f.Bytes()), Nil until it is made
    log,        \* hashes inserted since construction or the last Reset, in order
    epoch,      \* "new" until the first Reset, then "reset"
    last,       \* the last filter operation, its view, argument and result
    panicked,   \* an index out of range stopped the program
    pc,         \* per caller of CheckSplitBlock: where it is in the call
    px,         \* per caller: the hash x of the call
    blk,        \* per caller: the scratch block it holds (0: none)
    pr,         \* per caller: the behaviour of the source r of the call
                \* (px, pr, rerr and reads are locals: Return sets them back)
    rerr,       \* per caller: the error of its ReadAt
    reads,      \* per caller: the ReadAt calls issued in the current call
    ret,        \* per caller: what the last call returned
    scratch,    \* the bytes of each scratch block
    pool,       \* blockPool: the scratch blocks put back and not yet taken
    calls,      \* calls of CheckSplitBlock started so far
    sv,         \* NumSplitBlocksOf: numValues
    sp,         \* NumSplitBlocksOf: bitsPerValue
    sres,       \* NumSplitBlocksOf: the result, <<>> before the call
    cn,         \* the offset of CheckSplitBlock: the byte length n
    cx,         \* the offset of CheckSplitBlock: the hash x
    cres,       \* the offset of CheckSplitBlock: what was computed, <<>> before
    path,       \* ColumnPath: the receiver of Less and Equal
    other,      \* ColumnPath: their argument
    cmp,        \* ColumnPath: what Less and Equal returned, <<>> before
    dec,        \* bitPackRunDecoder: source.N in bytes, the bits the reader has
                \* consumed, remain and bitWidth
    rd,         \* the io.Reader r of reset: its bytes and how it ends
    dnum,       \* the numValues of the last reset
    returned,   \* values that decode calls returned since the last reset
    dret,       \* what the last decode call returned, <<>> before
    dcalls,     \* decode calls made so far
    resets,     \* reset calls made so far
    vals,       \* PLAIN: the byte arrays appended so far, in order
    buf,        \* PLAIN: the buffer that AppendByteArray built
    ran         \* PLAIN: what RangeByteArrays and NextByteArray did, <<>> before

filterVars == <<mem, f, g, log, epoch, last, panicked>>
probeVars == <<pc, px, pr, blk, rerr, reads, ret, scratch, pool, calls>>
sizingVars == <<sv, sp, sres>>
offsetVars == <<cn, cx, cres>>
pathVars == <<path, other, cmp>>
decoderVars == <<dec, rd, dnum, returned, dret, dcalls, resets>>
plainVars == <<vals, buf, ran>>
otherVars == <<offsetVars, pathVars, decoderVars, plainVars>>
vars == <<mem, f, g, log, epoch, last, panicked,
          pc, px, pr, blk, rerr, reads, ret, scratch, pool, calls, sv, sp, sres,
          otherVars>>

Procs == 1..NumProcs

View(v) == IF v = "f" THEN f ELSE g

Views == {"f"} \cup (IF g = Nil THEN {} ELSE {"g"})

Op(o, v, x, r) == [op |-> o, via |-> v, x |-> x, ret |-> r]

\* No probe is running and no scratch block exists.
ProbeIdle ==
    /\ pc = [p \in Procs |-> "idle"]
    /\ px = [p \in Procs |-> H0]
    /\ pr = [p \in Procs |-> "bytes"]
    /\ blk = [p \in Procs |-> 0]
    /\ rerr = [p \in Procs |-> "nil"]
    /\ reads = [p \in Procs |-> <<>>]
    /\ ret = [p \in Procs |-> <<>>]
    /\ scratch = [b \in Procs |-> ZeroBlock]
    /\ pool = {}
    /\ calls = 0

SizingIdle == sv = Zeros(U64) /\ sp = Zeros(U64) /\ sres = <<>>

OffsetIdle == cn = Zeros(U64) /\ cx = H0 /\ cres = <<>>

PathIdle == path = <<>> /\ other = <<>> /\ cmp = <<>>

\* The zero bitPackRunDecoder, before any reset.
DecoderIdle ==
    /\ dec = [N |-> 0, pos |-> 0, remain |-> 0, bitWidth |-> 0]
    /\ rd = [len |-> 0, end |-> "EOF"]
    /\ dnum = 0 /\ returned = 0 /\ dret = <<>> /\ dcalls = 0 /\ resets = 0

\* An empty buffer, nothing appended.
PlainIdle == vals = <<>> /\ buf = <<>> /\ ran = <<>>

\* Nothing else of the package is in use.
OtherIdle == OffsetIdle /\ PathIdle /\ DecoderIdle /\ PlainIdle

\* A filter made over a fresh buffer of L bytes.
FilterInit(L) ==
    /\ mem = FreshBuffer(L)
    /\ f = MakeSplitBlockFilter(Slice(0, L))
    /\ g = Nil
    /\ log = <<>>
    /\ epoch = "new"
    /\ last = Op("make", "f", H0, FALSE)
    /\ panicked = FALSE

Init == (\E L \in BufLens : FilterInit(L)) /\ ProbeIdle /\ SizingIdle /\ OtherIdle

\* ------------------------------------------------------------------------
\* The in-memory filter.

\* g := MakeSplitBlockFilter(f.Bytes())
Wrap ==
    /\ ~panicked /\ g = Nil
    /\ g' = MakeSplitBlockFilter(Bytes(f))
    /\ last' = Op("Wrap", "g", H0, FALSE)
    /\ UNCHANGED <<mem, f, log, epoch, panicked, probeVars, sizingVars, otherVars>>

\* Reset through the view v.
Reset(v) ==
    /\ ~panicked /\ v \in Views
    /\ mem' = ResetBlocks(mem, View(v))
    /\ log' = <<>>
    /\ epoch' = "reset"
    /\ last' = Op("Reset", v, H0, FALSE)
    /\ UNCHANGED <<f, g, panicked, probeVars, sizingVars, otherVars>>

\* Insert that always takes the first block.
InsertFirstBlock(v, x) ==
    /\ ~panicked /\ v \in Views /\ Len(log) < MaxLog
    /\ IF View(v).len = 0
       THEN panicked' = TRUE /\ UNCHANGED <<mem, log>>
       ELSE /\ mem' = WithBlock(mem, View(v), 0,
                                BlockInsert(BlockAt(mem, View(v), 0), Fragment(x)))
            /\ log' = Append(log, x)
            /\ UNCHANGED panicked
    /\ last' = Op("Insert", v, x, FALSE)
    /\ UNCHANGED <<f, g, epoch, probeVars, sizingVars, otherVars>>

\* Insert(x) through the view v: indexing a filter of no block panics.
Insert(v, x) ==
    /\ ~panicked /\ v \in Views /\ Len(log) < MaxLog
    /\ IF View(v).len = 0
       THEN panicked' = TRUE /\ UNCHANGED <<mem, log>>
       ELSE /\ mem' = filterInsert(mem, View(v), x)
            /\ log' = Append(log, x)
            /\ UNCHANGED panicked
    /\ last' = Op("Insert", v, x, FALSE)
    /\ UNCHANGED <<f, g, epoch, probeVars, sizingVars, otherVars>>

\* InsertBulk that leaves out the last hash.
InsertBulkSkipLast(v, xs) ==
    /\ ~panicked /\ v \in Views /\ Len(log) + Len(xs) <= MaxLog
    /\ IF View(v).len = 0 /\ xs # <<>>
       THEN panicked' = TRUE /\ UNCHANGED <<mem, log>>
       ELSE /\ mem' = filterInsertBulk(mem, View(v), SubSeq(xs, 1, Len(xs) - 1))
            /\ log' = log \o xs
            /\ UNCHANGED panicked
    /\ last' = Op("InsertBulk", v, H0, FALSE)
    /\ UNCHANGED <<f, g, epoch, probeVars, sizingVars, otherVars>>

\* InsertBulk(xs) through the view v.
InsertBulk(v, xs) ==
    /\ ~panicked /\ v \in Views /\ Len(log) + Len(xs) <= MaxLog
    /\ IF View(v).len = 0 /\ xs # <<>>
       THEN panicked' = TRUE /\ UNCHANGED <<mem, log>>
       ELSE /\ mem' = filterInsertBulk(mem, View(v), xs)
            /\ log' = log \o xs
            /\ UNCHANGED panicked
    /\ last' = Op("InsertBulk", v, H0, FALSE)
    /\ UNCHANGED <<f, g, epoch, probeVars, sizingVars, otherVars>>

\* Check that sets the bits of the hash it looks up.
CheckInserting(v, x) ==
    /\ ~panicked /\ v \in Views
    /\ IF View(v).len = 0
       THEN panicked' = TRUE /\ last' = Op("Check", v, x, FALSE) /\ UNCHANGED mem
       ELSE /\ last' = Op("Check", v, x, filterCheck(mem, View(v), x))
            /\ mem' = filterInsert(mem, View(v), x)
            /\ UNCHANGED panicked
    /\ UNCHANGED <<f, g, log, epoch, probeVars, sizingVars, otherVars>>

\* Check(x) through the view v.
Check(v, x) ==
    /\ ~panicked /\ v \in Views
    /\ IF View(v).len = 0
       THEN panicked' = TRUE /\ last' = Op("Check", v, x, FALSE)
       ELSE /\ last' = Op("Check", v, x, filterCheck(mem, View(v), x))
            /\ UNCHANGED panicked
    /\ UNCHANGED <<mem, f, g, log, epoch, probeVars, sizingVars, otherVars>>

Next ==
    \/ Wrap
    \/ \E v \in {"f", "g"} : Reset(v)
    \/ \E v \in {"f", "g"}, x \in Hashes : Insert(v, x)
    \/ \E v \in {"f", "g"}, xs \in BulkArgs : InsertBulk(v, xs)
    \/ \E v \in {"f", "g"}, x \in Hashes : Check(v, x)

Spec == Init /\ [][Next]_vars

\* ------------------------------------------------------------------------
\* The disk-backed probe CheckSplitBlock(r, n, x).  The source r reads the
\* serialized filter, the bytes of mem, and n is their number.  A call is
\* three steps: acquireBlock, r.ReadAt into the scratch block, and
\* block.Check with the return and the deferred releaseBlock.

\* What the source r of a call does: "bytes" reads the serialized filter as a
\* file or a bytes.Reader does, "short" reads ShortRead bytes and fails,
\* "fail" reads nothing and fails.
Sources == {"bytes", "short", "fail"}

\* Bytes that a "short" source reads before it fails.
ShortRead == 16

\* The hashes that the serialized filter of the probes holds.
Fill == <<H0, H3>>

\* The hashes that are probed: two that the filter holds, one that it does not.
ProbeHashes == {H0, H2, H3}

\* offset := BlockSize * fasthash1x64(x, int32(n/BlockSize)), scaled by one.
ProbeOffsetUnscaled(n, x) == BlockIndex(x, n \div BlockSize)

\* offset := BlockSize * fasthash1x64(x, int32(n/BlockSize)), for the lengths
\* of the buffers of the probes (CheckSplitBlockOffset has every length).
ProbeOffset(n, x) == BlockSize * BlockIndex(x, n \div BlockSize)

\* r.ReadAt(buf, off) on a source of kind k over the bytes m: the number of
\* bytes read and the error.
ReadCount(k, m, off, want) ==
    LET avail == IF Len(m) - off < 0 THEN 0
                 ELSE IF Len(m) - off < want THEN Len(m) - off ELSE want
    IN  CASE k = "bytes" -> avail
          [] k = "short" -> IF avail < ShortRead THEN avail ELSE ShortRead
          [] OTHER -> 0

ReadError(k, m, off, want) ==
    CASE k = "bytes" -> IF ReadCount(k, m, off, want) < want THEN "EOF" ELSE "nil"
      [] k = "short" -> "ErrUnexpectedEOF"
      [] OTHER -> "EIO"

\* The scratch block b after ReadAt copied cnt bytes of m from off into it.
ReadInto(b, m, off, cnt) ==
    [k \in 1..BlockSize |-> IF k <= cnt THEN m[off + k] ELSE b[k]]

\* A filter of L bytes that holds Fill, serialized.
ProbeInit(L) ==
    LET fl == MakeSplitBlockFilter(Slice(0, L))
        xs == IF fl.len >= 1 THEN Fill ELSE <<>>
    IN  /\ mem = filterInsertBulk(FreshBuffer(L), fl, xs)
        /\ f = fl
        /\ g = Nil
        /\ log = xs
        /\ epoch = "new"
        /\ last = Op("InsertBulk", "f", H0, FALSE)
        /\ panicked = FALSE

InitProbe == (\E L \in BufLens : ProbeInit(L)) /\ ProbeIdle /\ SizingIdle /\ OtherIdle

\* Scratch blocks that no caller holds and the pool does not hold.
FreeBlocks == {b \in Procs : b \notin pool /\ \A q \in Procs : blk[q] # b}

\* new(Block): the first free scratch block, if there is one.
NewBlock == {b \in FreeBlocks : \A d \in FreeBlocks : b <= d}

\* acquireBlock with a Get that leaves the block in the pool.
AcquireShared(p, x, k) ==
    /\ pc[p] = "idle" /\ calls < MaxCalls
    /\ calls' = calls + 1
    /\ \E b \in pool \cup NewBlock :
        /\ blk' = [blk EXCEPT ![p] = b]
        /\ IF b \in pool
           THEN UNCHANGED <<scratch, pool>>
           ELSE scratch' = [scratch EXCEPT ![b] = ZeroBlock] /\ UNCHANGED pool
    /\ pc' = [pc EXCEPT ![p] = "read"]
    /\ px' = [px EXCEPT ![p] = x]
    /\ pr' = [pr EXCEPT ![p] = k]
    /\ reads' = [reads EXCEPT ![p] = <<>>]
    /\ rerr' = [rerr EXCEPT ![p] = "nil"]
    /\ ret' = [ret EXCEPT ![p] = <<>>]
    /\ UNCHANGED <<filterVars, sizingVars, otherVars>>

\* The entry of CheckSplitBlock(r, n, x) by caller p, with a source of kind
\* k: acquireBlock takes a block that Get returns from blockPool, or makes a
\* new zeroed one when Get returns nil (which it may do with blocks pooled).
Acquire(p, x, k) ==
    /\ pc[p] = "idle" /\ calls < MaxCalls
    /\ calls' = calls + 1
    /\ \E b \in pool \cup NewBlock :
        /\ blk' = [blk EXCEPT ![p] = b]
        /\ IF b \in pool
           THEN pool' = pool \ {b} /\ UNCHANGED scratch
           ELSE scratch' = [scratch EXCEPT ![b] = ZeroBlock] /\ UNCHANGED pool
    /\ pc' = [pc EXCEPT ![p] = "read"]
    /\ px' = [px EXCEPT ![p] = x]
    /\ pr' = [pr EXCEPT ![p] = k]
    /\ reads' = [reads EXCEPT ![p] = <<>>]
    /\ rerr' = [rerr EXCEPT ![p] = "nil"]
    /\ ret' = [ret EXCEPT ![p] = <<>>]
    /\ UNCHANGED <<filterVars, sizingVars, otherVars>>

\* ReadAt that is issued again after an error.
ReadAtRetry(p) ==
    /\ pc[p] = "read"
    /\ LET off == ProbeOffset(Len(mem), px[p])
           cnt == ReadCount(pr[p], mem, off, BlockSize)
           err == ReadError(pr[p], mem, off, BlockSize)
       IN  /\ scratch' = [scratch EXCEPT ![blk[p]] = ReadInto(@, mem, off, cnt)]
           /\ rerr' = [rerr EXCEPT ![p] = err]
           /\ reads' = [reads EXCEPT ![p] = Append(@, [off |-> off, len |-> BlockSize])]
           /\ pc' = [pc EXCEPT ![p] = IF err # "nil" /\ Len(reads[p]) = 0
                                      THEN "read" ELSE "check"]
    /\ UNCHANGED <<px, pr, blk, ret, pool, calls, filterVars, sizingVars, otherVars>>

\* _, err := r.ReadAt(block.Bytes(), int64(offset))
ReadAt(p) ==
    /\ pc[p] = "read"
    /\ LET off == ProbeOffset(Len(mem), px[p])
           cnt == ReadCount(pr[p], mem, off, BlockSize)
       IN  /\ scratch' = [scratch EXCEPT ![blk[p]] = ReadInto(@, mem, off, cnt)]
           /\ rerr' = [rerr EXCEPT ![p] = ReadError(pr[p], mem, off, BlockSize)]
           /\ reads' = [reads EXCEPT ![p] = Append(@, [off |-> off, len |-> BlockSize])]
    /\ pc' = [pc EXCEPT ![p] = "check"]
    /\ UNCHANGED <<px, pr, blk, ret, pool, calls, filterVars, sizingVars, otherVars>>

\* Return that releases the block only when the read succeeded.
ReturnNoDefer(p) ==
    /\ pc[p] = "check"
    /\ ret' = [ret EXCEPT ![p] =
                [ok |-> BlockCheck(scratch[blk[p]], Fragment(px[p])), err |-> rerr[p]]]
    /\ pool' = IF rerr[p] = "nil" THEN pool \cup {blk[p]} ELSE pool
    /\ blk' = [blk EXCEPT ![p] = 0]
    /\ pc' = [pc EXCEPT ![p] = "idle"]
    /\ px' = [px EXCEPT ![p] = H0]
    /\ pr' = [pr EXCEPT ![p] = "bytes"]
    /\ rerr' = [rerr EXCEPT ![p] = "nil"]
    /\ reads' = [reads EXCEPT ![p] = <<>>]
    /\ UNCHANGED <<scratch, calls, filterVars, sizingVars, otherVars>>

\* return block.Check(uint32(x)), err, then the deferred releaseBlock(block).
Return(p) ==
    /\ pc[p] = "check"
    /\ ret' = [ret EXCEPT ![p] =
                [ok |-> BlockCheck(scratch[blk[p]], Fragment(px[p])), err |-> rerr[p]]]
    /\ pool' = pool \cup {blk[p]}
    /\ blk' = [blk EXCEPT ![p] = 0]
    /\ pc' = [pc EXCEPT ![p] = "idle"]
    /\ px' = [px EXCEPT ![p] = H0]
    /\ pr' = [pr EXCEPT ![p] = "bytes"]
    /\ rerr' = [rerr EXCEPT ![p] = "nil"]
    /\ reads' = [reads EXCEPT ![p] = <<>>]
    /\ UNCHANGED <<scratch, calls, filterVars, sizingVars, otherVars>>

\* sync.Pool drops a pooled block (a garbage collection): its memory is gone.
PoolDrop(b) ==
    /\ b \in pool
    /\ pool' = pool \ {b}
    /\ scratch' = [scratch EXCEPT ![b] = ZeroBlock]
    /\ UNCHANGED <<pc, px, pr, blk, rerr, reads, ret, calls, filterVars, sizingVars, otherVars>>

NextProbe ==
    \/ \E p \in Procs, x \in ProbeHashes, k \in Sources : Acquire(p, x, k)
    \/ \E p \in Procs : ReadAt(p)
    \/ \E p \in Procs : Return(p)
    \/ \E b \in Procs : PoolDrop(b)

ProbeSpec == InitProbe /\ [][NextProbe]_vars

\* ------------------------------------------------------------------------
\* Checks of the filter in memory while probes read its serialized bytes.

NextFrame ==
    \/ \E v \in {"f", "g"}, x \in ProbeHashes : Check(v, x)
    \/ \E p \in Procs, x \in ProbeHashes : Acquire(p, x, "bytes")
    \/ \E p \in Procs : ReadAt(p)
    \/ \E p \in Procs : Return(p)

FrameSpec == InitProbe /\ [][NextFrame]_vars

\* ------------------------------------------------------------------------
\* The sizing function.

\* bits.ByteCount(numBits): the bytes that hold numBits bits.
ByteCount(numBits) == CeilDiv(numBits, 8)

\* NumSplitBlocksOf with a block count rounded down.
NumSplitBlocksOfFloor(numValues, bitsPerValue) ==
    DivSmall(ByteCount(MulBytes(numValues, bitsPerValue, U64)), BlockSize)

\* NumSplitBlocksOf(numValues, bitsPerValue): uint(numValues) * bitsPerValue
\* is a product of machine words; the bytes are rounded up to whole blocks.
NumSplitBlocksOf(numValues, bitsPerValue) ==
    LET numBytes == ByteCount(MulBytes(numValues, bitsPerValue, U64))
    IN  DivSmall(AddSmall(numBytes, BlockSize - 1), BlockSize)

\* 2^k as a machine word, for k a multiple of 8 plus j.
Pow2(k) == [i \in 1..U64 |-> IF i = (k \div 8) + 1 THEN 2 ^ (k % 8) ELSE 0]

\* Value counts: small ones, around the block boundaries of 10 bits per
\* value, and large ones whose product with the bits per value passes 2^64.
SizingValues ==
    {FromNat(n, U64) : n \in {0, 1, 2, 25, 26, 100, 256, 1000}}
        \cup {Pow2(32), Pow2(61), AddSmall(Pow2(61), 1), AddSmall(Pow2(63), -1)}

\* Bits per value.
SizingBits ==
    {FromNat(n, U64) : n \in {0, 1, 7, 8, 9, 10, 16, 64}} \cup {Pow2(32)}

InitSizing ==
    /\ FilterInit(BlockSize) /\ ProbeIdle /\ OtherIdle
    /\ sv \in SizingValues /\ sp \in SizingBits /\ sres = <<>>

\* n := NumSplitBlocksOf(sv, sp)
Size ==
    /\ sres = <<>>
    /\ sres' = NumSplitBlocksOf(sv, sp)
    /\ UNCHANGED <<sv, sp, filterVars, probeVars, otherVars>>

NextSizing == Size

SizingSpec == InitSizing /\ [][NextSizing]_vars

\* ------------------------------------------------------------------------
\* The offset that CheckSplitBlock reads at, for every length an int64 holds.

\* int32(v) of an int64: the low 32 bits.
Int32(v) == SubSeq(v, 1, U32)

\* offset := BlockSize * fasthash1x64(x, int32(n/BlockSize)) and the
\* int64(offset) of the ReadAt: the block count as fasthash1x64 takes it
\* (uint64 of the int32), the index, a 32-bit word, and the offset, their
\* product in 32 bits, widened.
CheckSplitBlockOffset(n, x) ==
    LET scale == Int32(DivSmall(n, BlockSize))
        index == fasthash1x64(x, scale)
    IN  [count |-> SignExtend(scale),
         index |-> index,
         offset |-> Extend(MulBytes(index, FromNat(BlockSize, U32), U32), U64)]

\* Byte lengths: multiples of 32, small ones, and those around 2^32, where
\* the offset passes 32 bits, and around 2^36, where the block count passes
\* 31 bits.
ProbeLengths ==
    {FromNat(BlockSize * k, U64) : k \in 1..4}
        \cup {Pow2(31), Pow2(32), Pow2(37), Pow2(62)}
        \cup {AddSmall(Pow2(k), d) : k \in {32, 36}, d \in {-BlockSize, BlockSize}}
        \cup {Pow2(36)}

InitOffset ==
    /\ FilterInit(BlockSize) /\ ProbeIdle /\ SizingIdle /\ PathIdle /\ DecoderIdle
    /\ PlainIdle
    /\ cn \in ProbeLengths /\ cx \in AllHashes /\ cres = <<>>

\* The offset of CheckSplitBlock(r, cn, cx).
Offset ==
    /\ cres = <<>>
    /\ cres' = CheckSplitBlockOffset(cn, cx)
    /\ UNCHANGED <<cn, cx, filterVars, probeVars, sizingVars, pathVars, decoderVars,
                   plainVars>>

NextOffset == Offset

OffsetSpec == InitOffset /\ [][NextOffset]_vars

\* ------------------------------------------------------------------------
\* Column paths: sequences of names, a name a string of bytes.

\* Longest name, in bytes, and longest path, in names.
MaxName == 1
MaxPath == 2

\* s < t for two strings: the first byte that differs decides, and a proper
\* prefix is less.
RECURSIVE StringLess(_, _)
StringLess(s, t) ==
    IF t = <<>> THEN FALSE
    ELSE IF s = <<>> THEN TRUE
    ELSE IF Head(s) # Head(t) THEN Head(s) < Head(t)
    ELSE StringLess(Tail(s), Tail(t))

Min(a, b) == IF a < b THEN a ELSE b

\* stringsAreEqual: the same length and the same name at every index.
stringsAreEqual(strings1, strings2) ==
    /\ Len(strings1) = Len(strings2)
    /\ \A i \in 1..Len(strings1) : strings1[i] = strings2[i]

\* stringsAreOrdered: false at the first index i < n with
\* strings1[i] >= strings2[i], else len(strings1) <= len(strings2).
stringsAreOrdered(strings1, strings2) ==
    LET n == Min(Len(strings1), Len(strings2))
    IN  IF \E i \in 1..n : ~StringLess(strings1[i], strings2[i])
        THEN FALSE
        ELSE Len(strings1) <= Len(strings2)

\* path.Equal(other)
Equal(p, o) == stringsAreEqual(p, o)

\* path.Less(other)
Less(p, o) == stringsAreOrdered(p, o)

\* Names of the bytes 97 and 98, and the paths made of them.
Names == SeqsUpTo({97, 98}, MaxName)

Paths == SeqsUpTo(Names, MaxPath)

InitPath ==
    /\ FilterInit(BlockSize) /\ ProbeIdle /\ SizingIdle /\ OffsetIdle /\ DecoderIdle
    /\ PlainIdle
    /\ path \in Paths /\ other \in Paths /\ cmp = <<>>

\* path.Less(other), other.Less(path), path.Equal(other) and path.Less(path).
Compare ==
    /\ cmp = <<>>
    /\ cmp' = [less |-> Less(path, other), greater |-> Less(other, path),
               equal |-> Equal(path, other), self |-> Less(path, path)]
    /\ UNCHANGED <<path, other, filterVars, probeVars, sizingVars, offsetVars,
                   decoderVars, plainVars>>

NextPath == Compare

PathSpec == InitPath /\ [][NextPath]_vars

\* ------------------------------------------------------------------------
\* The bit-pack run decoder.

\* Most values of a run, most bytes of a reader and of a destination, most
\* decode calls and most resets.
MaxValues == 3
MaxSource == 3
MaxDst == 2
MaxDecodes == 3
MaxResets == 1

\* Bit widths of the values of a run.
BitWidths == {0, 1, 3, 9}

\* Destination widths, in bits: 8 and 16 are accepted on every decoder and
\* 4, 24 and 128 on none.
DstWidths == {4, 8, 16, 24, 128}

\* bits.ByteCount(n) of a bit count that is far below the width of a word.
BytesOf(n) == (n + 7) \div 8

\* math/bits.OnesCount(v): the bits set in v.
RECURSIVE OnesCount(_)
OnesCount(v) == IF v = 0 THEN 0 ELSE (v % 2) + OnesCount(v \div 2)

\* The bits that the reader can still take from d.source: the LimitedReader
\* ends after source.N bytes, the reader r after its own.
SourceBits(dc, r) == 8 * Min(dc.N, r.len)

\* The error of a ReadBits that the source cannot serve: io.EOF from the
\* LimitedReader or the end of r (or the error r fails with), and
\* io.ErrUnexpectedEOF when the source ended inside the value.
ReadBitsErrors(dc, r, pos) ==
    LET end == IF dc.N <= r.len THEN "EOF" ELSE r.end
    IN  {end} \cup (IF end = "EOF" /\ pos < SourceBits(dc, r)
                    THEN {"ErrUnexpectedEOF"} ELSE {})

\* decodeInt8 (and 16, 32, 64) from n values on: ReadBits(bitWidth) while
\* n < d.remain and n < len(dst); the values read, the position of the
\* reader, and whether the last ReadBits failed.
RECURSIVE decodeInt(_, _, _, _, _)
decodeInt(dc, r, len, pos, n) ==
    IF n < dc.remain /\ n < len
    THEN IF pos + dc.bitWidth <= SourceBits(dc, r)
         THEN decodeInt(dc, r, len, pos + dc.bitWidth, n + 1)
         ELSE [n |-> n, pos |-> pos, failed |-> TRUE]
    ELSE [n |-> n, pos |-> pos, failed |-> FALSE]

\* The error of decode with io.EOF passed through as it came.
DecodeErrorKeepEOF(remain, err) == IF remain = 0 THEN "EOF" ELSE err

\* The error of decode after d.remain -= uint(n): io.EOF when nothing
\* remains, else the error of the read, io.EOF made io.ErrUnexpectedEOF.
DecodeError(remain, err) ==
    IF remain = 0 THEN "EOF"
    ELSE IF err = "EOF" THEN "ErrUnexpectedEOF" ELSE err

\* The call of decode, for what it returned.
Call(n, err, dstLen, dstWidth) ==
    [n |-> n, err |-> err, dst |-> dstLen, width |-> dstWidth]

OtherThanDecoder ==
    <<filterVars, probeVars, sizingVars, offsetVars, pathVars, plainVars>>

InitDecoder ==
    /\ FilterInit(BlockSize) /\ ProbeIdle /\ SizingIdle /\ OtherIdle

\* d.reset(r, bitWidth, nv) with an r of len bytes that ends with end.
reset(len, end, bitWidth, nv) ==
    /\ resets < MaxResets
    /\ resets' = resets + 1
    /\ rd' = [len |-> len, end |-> end]
    /\ dec' = [N |-> BytesOf(nv * bitWidth),
               pos |-> 0, remain |-> nv, bitWidth |-> bitWidth]
    /\ dnum' = nv /\ returned' = 0 /\ dret' = <<>>
    /\ UNCHANGED <<dcalls, OtherThanDecoder>>

\* d.decode(dst, dstWidth) with a dst of dstLen bytes.
decode(dstLen, dstWidth) ==
    /\ dcalls < MaxDecodes
    /\ dcalls' = dcalls + 1
    /\ IF \/ dstWidth < 8 \/ dstWidth > 64 \/ OnesCount(dstWidth) # 1
          \/ (8 * dstLen) % dstWidth # 0
          \/ dstWidth < dec.bitWidth
       THEN /\ dret' = Call(0, "invalid", dstLen, dstWidth)
            /\ UNCHANGED <<dec, returned>>
       ELSE LET res == decodeInt(dec, rd, (8 * dstLen) \div dstWidth, dec.pos, 0)
                remain == dec.remain - res.n
            IN  \E e \in (IF res.failed THEN ReadBitsErrors(dec, rd, res.pos)
                          ELSE {"nil"}),
                   p \in (IF res.failed THEN {res.pos, SourceBits(dec, rd)}
                          ELSE {res.pos}) :
                    /\ dec' = [dec EXCEPT !.pos = p, !.remain = remain]
                    /\ returned' = returned + res.n
                    /\ dret' = Call(res.n, DecodeError(remain, e), dstLen, dstWidth)
    /\ UNCHANGED <<rd, dnum, resets, OtherThanDecoder>>

NextDecoder ==
    \/ \E len \in 0..MaxSource, end \in {"EOF", "EIO"},
          bitWidth \in BitWidths, nv \in 0..MaxValues : reset(len, end, bitWidth, nv)
    \/ \E dstLen \in 0..MaxDst, dstWidth \in DstWidths : decode(dstLen, dstWidth)

DecoderSpec == InitDecoder /\ [][NextDecoder]_vars

\* ------------------------------------------------------------------------
\* PLAIN byte arrays: each value after its length, 4 little-endian bytes.

\* Longest value, in bytes, most values of a buffer, and most bytes that are
\* cut from the end of a buffer.
MaxValueLen == 2
MaxList == 2
MaxCut == 5

ByteArrayLengthSize == 4

\* The values: byte strings of the bytes 0 and 1.
ByteArrays == SeqsUpTo({0, 1}, MaxValueLen)

\* AppendByteArray with the length in big-endian order.
AppendByteArrayBigEndian(b, v) ==
    b \o [k \in 1..ByteArrayLengthSize |->
            FromNat(Len(v), ByteArrayLengthSize)[ByteArrayLengthSize + 1 - k]] \o v

\* AppendByteArray(b, v): four bytes, then v, then PutByteArrayLength of
\* len(v) into the four bytes.
AppendByteArray(b, v) == b \o FromNat(Len(v), ByteArrayLengthSize) \o v

\* An error that wraps io.ErrUnexpectedEOF.
TooShort == "ErrUnexpectedEOF"

\* NextByteArray(b): n := 4 + int(binary.LittleEndian.Uint32(b)) is an int
\* of 64 bits.
NextByteArray(b) ==
    IF Len(b) < ByteArrayLengthSize
    THEN [v |-> <<>>, r |-> b, err |-> TooShort]
    ELSE LET n == AddSmall(Extend(SubSeq(b, 1, ByteArrayLengthSize), U64),
                           ByteArrayLengthSize)
         IN  IF ~Leq(n, FromNat(Len(b), U64))
             THEN [v |-> <<>>, r |-> b, err |-> TooShort]
             ELSE [v |-> SubSeq(b, ByteArrayLengthSize + 1, ToNat(n)),
                   r |-> SubSeq(b, ToNat(n) + 1, Len(b)),
                   err |-> "nil"]

\* RangeByteArrays(b, do) with a do that appends its argument to seen and
\* fails at its call number failAt (never, if failAt is 0): the values that
\* do took, the error returned and the bytes not consumed.
RECURSIVE RangeByteArrays(_, _, _)
RangeByteArrays(b, seen, failAt) ==
    IF Len(b) > 0
    THEN LET x == NextByteArray(b)
         IN  IF x.err # "nil"
             THEN [seen |-> seen, err |-> x.err, rest |-> x.r]
             ELSE IF Len(seen) + 1 = failAt
             THEN [seen |-> Append(seen, x.v), err |-> "EDO", rest |-> x.r]
             ELSE RangeByteArrays(x.r, Append(seen, x.v), failAt)
    ELSE [seen |-> seen, err |-> "nil", rest |-> b]

OtherThanPlain ==
    <<filterVars, probeVars, sizingVars, offsetVars, pathVars, decoderVars>>

InitPlain ==
    /\ FilterInit(BlockSize) /\ ProbeIdle /\ SizingIdle /\ OtherIdle

\* buf = AppendByteArray(buf, v)
AppendValue(v) ==
    /\ ran = <<>> /\ Len(vals) < MaxList
    /\ buf' = AppendByteArray(buf, v)
    /\ vals' = Append(vals, v)
    /\ UNCHANGED <<ran, OtherThanPlain>>

\* The buffers that are read: buf, buf less bytes at its end, and buf with a
\* first length of 0xFF000000 and more.
Readable ==
    {SubSeq(buf, 1, Len(buf) - c) : c \in 0..Min(MaxCut, Len(buf))}
        \cup {[k \in 1..Len(buf) |-> IF k = ByteArrayLengthSize THEN 255 ELSE buf[k]]}

\* RangeByteArrays(b, do) and NextByteArray(b).
Read(b, failAt) ==
    /\ ran = <<>>
    /\ ran' = [b |-> b, failAt |-> failAt,
               range |-> RangeByteArrays(b, <<>>, failAt),
               next |-> NextByteArray(b)]
    /\ UNCHANGED <<vals, buf, OtherThanPlain>>

NextPlain ==
    \/ \E v \in ByteArrays : AppendValue(v)
    \/ \E b \in Readable, failAt \in 0..MaxList : Read(b, failAt)

PlainSpec == InitPlain /\ [][NextPlain]_vars

\* ------------------------------------------------------------------------
\* Properties of the in-memory filter (specification Spec).

AllZero(bs) == \A k \in 1..Len(bs) : bs[k] = 0

\* The bytes of the filter fl.
Image(fl) == Deref(mem, Bytes(fl))

\* The orders in which the hashes of s can be listed.
Perms(s) ==
    {[k \in 1..Len(s) |-> s[q[k]]] : q \in Permutations(1..Len(s))}

\* C1: no false negatives.  In a filter of at least one block, every hash
\* inserted (by Insert or InsertBulk) since construction or the last Reset is
\* found by Check, through either view, in the state after the insertion and
\* in every later state; a Check of such a hash has returned true.
C1_NoFalseNegatives ==
    (~panicked /\ f.len >= 1) =>
        /\ \A h \in Range(log), v \in Views : filterCheck(mem, View(v), h)
        /\ (last.op = "Check" /\ last.x \in Range(log)) => last.ret

\* C1 witness: after an Insert and an InsertBulk into a filter of two blocks,
\* a Check of the hash of the last block returned true.
C1_Witness ==
    /\ f.len = 2 /\ Len(log) = 3 /\ {H0, H1, H3} \subseteq Range(log)
    /\ last.op = "Check" /\ last.x = H3 /\ last.ret

\* C7: bulk equivalence.  The image of a filter of at least one block, however
\* its hashes were inserted since it was fresh, is the image InsertBulk gives
\* on a fresh filter of the same block count for every order of those hashes.
C7_BulkEquivalence ==
    (~panicked /\ f.len >= 1) =>
        \A xs \in Perms(log) :
            Deref(filterInsertBulk(FreshBuffer(Len(mem)), f, xs), Bytes(f)) = Image(f)

\* C7 witness: three hashes of which two are the same and two share a block
\* with different fragments, the last of them put by InsertBulk.
C7_Witness ==
    /\ f.len = 1 /\ last.op = "InsertBulk" /\ epoch = "reset"
    /\ log = <<H3, H0, H3>>

C9_RoundTrip ==
    /\ Bytes(f).len = BlockSize * f.len
    /\ \A i \in 0..(f.len - 1) :
        BlockAt(mem, f, i) = SubSeq(Image(f), BlockSize * i + 1, BlockSize * (i + 1))
    /\ (g # Nil /\ ~panicked) =>
        /\ g.len = f.len
        /\ Image(g) = Image(f)
        /\ f.len >= 1 => \A h \in Hashes : filterCheck(mem, g, h) = filterCheck(mem, f, h)
        /\ last.op = "Insert" =>
            \A v \in Views : filterCheck(mem, View(v), last.x)
        /\ last.op = "Reset" => \A v \in Views : AllZero(Image(View(v)))

\* C9 witness: the second view exists, the filter has two blocks and holds a
\* hash in each, the last one inserted through the second view.
C9_Witness ==
    /\ g # Nil /\ f.len = 2 /\ log = <<H0, H3>>
    /\ last.op = "Insert" /\ last.via = "g"

\* The high 32 bits of x times n, shifted right by 32, for each hash and
\* each block count of the model.
HighTimes ==
    [x \in Hashes |-> [n \in 1..(MaxBlocks + 1) |->
        ToNat(SubSeq(MulBytes(Extend(SubSeq(x, U32 + 1, U64), U64),
                              FromNat(n, U64), U64), U32 + 1, U64))]]

\* Every bit that is set in the bytes a is set in the bytes b.
BitsKept(a, b) ==
    \A k \in 1..Len(a) : \A j \in 0..7 : HasBit(a[k], j) => HasBit(b[k], j)

\* C16: an Insert(x) into a filter of n >= 1 blocks changes bytes of the one
\* block at the index (high 32 bits of x) * n >> 32 and no other byte, and
\* only sets bits there; no step changes the pointer or the block count of a
\* view once it is made, whatever the order of Insert, InsertBulk, Reset and
\* Check.
C16_InsertOneBlock ==
    [][/\ f' = f /\ Len(mem') = Len(mem)
       /\ g # Nil => g' = g
       /\ (last'.op = "Insert" /\ log' # log) =>
            LET fl == View(last'.via)
                i == HighTimes[last'.x][fl.len]
            IN  /\ fl.len >= 1 /\ i = Block(fl, last'.x) /\ i \in 0..(fl.len - 1)
                /\ BitsKept(BlockAt(mem, fl, i), BlockAt(mem', fl, i))
                /\ mem' = WithBlock(mem, fl, i, BlockAt(mem', fl, i))]_vars

\* C16 witness: an Insert of a hash of the second block into a filter of two
\* blocks that held a hash in each block has set bits in the second block.
C16_Witness ==
    /\ f.len = 2 /\ last.op = "Insert" /\ last.x = H3
    /\ log = <<H0, H1, H3>>
    /\ Block(f, H3) = 1 /\ Block(f, H1) = 0
    /\ ~AllZero(BlockAt(mem, f, 1))

\* ------------------------------------------------------------------------
\* Properties of the disk-backed probe (specification ProbeSpec).

\* The step in which caller p returns from CheckSplitBlock.
Returning(p) == pc[p] = "check" /\ pc'[p] = "idle"

C3_ScratchReleased ==
    [][\A p \in Procs :
        /\ (pc'[p] = "idle") = (blk'[p] = 0)
        /\ (pc[p] = "idle" /\ pc'[p] # "idle") => blk'[p] \notin pool'
        /\ (pc[p] # "idle" /\ pc'[p] # "idle") => blk'[p] = blk[p]
        /\ Returning(p) => (blk[p] \in pool' /\ blk[p] \notin pool)]_vars

\* C3 witness: every call is over, one returned an error and one did not, no
\* caller holds a block and the pool holds the blocks.
C3_Witness ==
    /\ calls = MaxCalls
    /\ \A p \in Procs : pc[p] = "idle" /\ blk[p] = 0
    /\ \E p, q \in Procs : ret[p] # <<>> /\ ret[p].err = "EIO"
                           /\ ret[q] # <<>> /\ ret[q].err = "nil"
    /\ Cardinality(pool) = 2

C5_OddLengthRejected ==
    [][\A p \in Procs :
        (Returning(p) /\ pr[p] = "bytes" /\ Len(mem) % BlockSize # 0) =>
            ret'[p].err # "nil"]_vars

\* C6: one ReadAt per probe, for 32 bytes, never a second one; the call
\* returns the error of that ReadAt as it is, with the check of the scratch
\* block as the read left it.
C6_SingleRead ==
    [][\A p \in Procs :
        /\ Len(reads'[p]) <= 1
        /\ \A k \in 1..Len(reads'[p]) : reads'[p][k].len = BlockSize
        /\ Returning(p) =>
            /\ Len(reads[p]) = 1
            /\ ret'[p] = [ok |-> BlockCheck(scratch[blk[p]], Fragment(px[p])),
                          err |-> rerr[p]]]_vars

\* C6 witness: a probe whose read was short returned the error of the read,
\* and true, from a block that an earlier probe of the same hash had filled.
C6_Witness ==
    \E p \in Procs :
        /\ pc[p] = "idle" /\ ret[p] = [ok |-> TRUE, err |-> "ErrUnexpectedEOF"]
        /\ calls = 2

\* What a probe of x with a source of kind k over the bytes m returns when
\* its scratch block held the bytes b at the acquisition.
ProbeResult(k, m, x, b) ==
    LET off == ProbeOffset(Len(m), x)
        cnt == ReadCount(k, m, off, BlockSize)
    IN  [ok |-> BlockCheck(ReadInto(b, m, off, cnt), Fragment(x)),
         err |-> ReadError(k, m, off, BlockSize)]

\* C13 as claimed: what the scratch block held at its acquisition does not
\* influence the probe.  Every probe returns the boolean and the error that
\* the probe of the same source, length and hash returns with a new block.
C13_ScratchIrrelevant ==
    [][\A p \in Procs :
        Returning(p) => ret'[p] = ProbeResult(pr[p], mem, px[p], ZeroBlock)]_vars

\* C14: Check changes no byte of any block and not the block count of any
\* view, and no step of a probe changes a byte of its source.
C14_CheckReadsOnly ==
    [][/\ mem' = mem /\ f' = f /\ g' = g
       /\ last' # last => last'.op = "Check"]_vars

\* C14 witness: a Check of a hash that the filter holds has returned true
\* while a probe of that hash, its block read, is about to return true.
C14_Witness ==
    \E p \in Procs :
        /\ last = Op("Check", "f", H3, TRUE) /\ f.len = 2
        /\ pc[p] = "check" /\ px[p] = H3 /\ pr[p] = "bytes"
        /\ BlockCheck(scratch[blk[p]], Fragment(H3))

\* C12 as claimed: Insert, InsertBulk, Check and Reset never panic, on a
\* filter of any block count and on a view over any byte buffer.
C12_NoPanic == ~panicked

\* ------------------------------------------------------------------------
\* Properties of the sizing function (specification SizingSpec).

\* C10 as claimed: NumSplitBlocksOf(v, p) is ceil(ceil(v * p / 8) / 32), with
\* the product and the divisions those of the integers (here 128 bits wide).
C10_SizingFormula ==
    sres # <<>> =>
        Extend(sres, 2 * U64)
            = CeilDiv(CeilDiv(MulBytes(sv, sp, 2 * U64), 8), BlockSize)

\* C11 as claimed: NumSplitBlocksOf(v, p) does not decrease when v grows with
\* p fixed, nor when p grows with v fixed, over all machine words, and
\* NumSplitBlocksOf(0, p) is 0 for every p.
C11_SizingMonotone ==
    sres # <<>> =>
        /\ \A v \in SizingValues :
               Leq(sv, v) => Leq(sres, NumSplitBlocksOf(v, sp))
        /\ \A p \in SizingBits :
               Leq(sp, p) => Leq(sres, NumSplitBlocksOf(sv, p))
        /\ sv = Zeros(U64) => sres = Zeros(U64)

\* ------------------------------------------------------------------------
\* Properties of the offset of the probe (specification OffsetSpec).

\* C17 as claimed: for every length n that is a positive multiple of 32 and
\* every hash x, the block count is n/32, the index is below it, the offset
\* is 32 times the index, and the offset is at most n - 32.
C17_ReadInside ==
    cres # <<>> =>
        /\ cres.count = DivSmall(cn, BlockSize)
        /\ Leq(Extend(cres.index, U64), AddSmall(cres.count, -1))
        /\ cres.offset = MulBytes(Extend(cres.index, U64), FromNat(BlockSize, U64), U64)
        /\ Leq(cres.offset, AddSmall(cn, -BlockSize))

\* ------------------------------------------------------------------------
\* Properties of column paths (specification PathSpec).

\* C15 as claimed: Less is a strict order that agrees with Equal.  No path
\* is less than itself, no two paths are each less than the other, and of
\* two paths that are not Equal exactly one is less than the other.
C15_StrictOrder ==
    cmp # <<>> =>
        /\ ~cmp.self
        /\ ~(cmp.less /\ cmp.greater)
        /\ ~cmp.equal => (cmp.less # cmp.greater)

\* ------------------------------------------------------------------------
\* Properties of the bit-pack run decoder (specification DecoderSpec).

\* The arguments that decode accepts on a decoder of the given bit width.
ValidCall(c, bitWidth) ==
    /\ c.width \in {8, 16, 32, 64}
    /\ (8 * c.dst) % c.width = 0
    /\ c.width >= bitWidth

\* C18: progress of the decoder.  remain is numValues less the values
\* returned since reset, and never below 0.  A decode with valid arguments
\* returns at most remain and at most len(dst) values; it returns io.EOF
\* exactly when remain is 0 after it; and when the source ended before the
\* values it could return, io.ErrUnexpectedEOF.  A decode with arguments
\* that are not valid returns 0 and an error, and changes neither remain nor
\* the position of the reader.
C18_DecoderProgress ==
    [][/\ dec'.remain = dnum' - returned' /\ returned' <= dnum'
       /\ dcalls' = dcalls + 1 =>
            LET c == dret'
                elems == (8 * c.dst) \div c.width
            IN  IF ValidCall(c, dec.bitWidth)
                THEN /\ c.n <= Min(dec.remain, elems)
                     /\ returned' = returned + c.n
                     /\ (c.err = "EOF") = (dec'.remain = 0)
                     /\ (/\ c.n < Min(dec.remain, elems)
                         /\ (dec.N <= rd.len \/ rd.end = "EOF"))
                            => c.err = "ErrUnexpectedEOF"
                ELSE /\ c.n = 0 /\ c.err \notin {"nil", "EOF", "ErrUnexpectedEOF"}
                     /\ dec' = dec /\ returned' = returned]_vars

\* C18 witness: a run of three values of 3 bits was decoded in three calls,
\* the third of which returned the last value, into a destination of two
\* bytes, with io.EOF.
C18_Witness ==
    /\ dnum = 3 /\ dec.bitWidth = 3 /\ returned = 3 /\ dec.remain = 0
    /\ dcalls = 3 /\ dret = Call(1, "EOF", 2, 8) /\ dec.pos = 9

\* ------------------------------------------------------------------------
\* Properties of PLAIN byte arrays (specification PlainSpec).

\* AppendByteArray of each value of vs in order, on an empty buffer.
RECURSIVE Encoded(_)
Encoded(vs) ==
    IF vs = <<>> THEN <<>>
    ELSE AppendByteArray(Encoded(SubSeq(vs, 1, Len(vs) - 1)), vs[Len(vs)])

\* A buffer of 1 to 3 bytes, or one whose first four bytes, as a
\* little-endian length, exceed the bytes that follow them.
Malformed(b) ==
    \/ Len(b) \in 1..(ByteArrayLengthSize - 1)
    \/ /\ Len(b) >= ByteArrayLengthSize
       /\ ~Leq(Extend(SubSeq(b, 1, ByteArrayLengthSize), U64),
               FromNat(Len(b) - ByteArrayLengthSize, U64))

\* C19: round trip of the PLAIN framing.  On the buffer that AppendByteArray
\* built from v1..vk, RangeByteArrays calls do k times, with v1..vk in
\* order, and returns nil, and NextByteArray returns v1, the buffer of
\* v2..vk and nil.  On a malformed buffer NextByteArray returns its input
\* and an error that wraps io.ErrUnexpectedEOF; RangeByteArrays, with a do
\* that does not fail, consumes whole values up to a malformed rest, and
\* stops there with that error, or up to the end, with nil.
C19_PlainRoundTrip ==
    /\ buf = Encoded(vals)
    /\ ran # <<>> =>
        /\ (ran.b = buf /\ ran.failAt = 0) =>
                ran.range = [seen |-> vals, err |-> "nil", rest |-> <<>>]
        /\ (ran.b = buf /\ vals # <<>>) =>
                ran.next = [v |-> Head(vals), r |-> Encoded(Tail(vals)), err |-> "nil"]
        /\ Malformed(ran.b) =>
                ran.next = [v |-> <<>>, r |-> ran.b, err |-> TooShort]
        /\ ran.failAt = 0 =>
                /\ Encoded(ran.range.seen) \o ran.range.rest = ran.b
                /\ (ran.range.err = "nil") = (ran.range.rest = <<>>)
                /\ ran.range.err # "nil" =>
                        Malformed(ran.range.rest) /\ ran.range.err = TooShort

\* C19 witness: two values, the second one empty, were appended and
\* RangeByteArrays gave both of them to do and returned nil.
C19_Witness ==
    /\ vals = <<<<1, 0>>, <<>>>> /\ buf = <<2, 0, 0, 0, 1, 0, 0, 0, 0, 0>>
    /\ ran # <<>> /\ ran.b = buf /\ ran.failAt = 0
    /\ ran.range.seen = vals /\ ran.range.err = "nil"
    /\ ran.next.v = <<1, 0>> /\ ran.next.r = <<0, 0, 0, 0>>

====
